---- MODULE Spec2Model ----
(***************************************************************************)
(* Model of georeferenciacion.py: GeoReferenciador geocodes the distinct   *)
(* addresses of a table (sequentially or through a thread pool), maps the  *)
(* coordinates back onto every row and assigns each row the electoral      *)
(* section of the polygon that contains its point.                         *)
(*                                                                         *)
(* Text cells are sequences of characters, so that str.strip() is          *)
(* computed.  A missing cell (None / NaN) is the value NaN.  Coordinates   *)
(* and section ids are strings, "None" standing for None / NaN.            *)
(***************************************************************************)
EXTENDS Integers, Sequences, FiniteSets, TLC

VARIABLES
    pc,                 \* position of the calling thread
    proveedor,          \* provider name given to GeoReferenciador(...)
    max_workers,        \* self._max_workers
    gdf,                \* self.gdf: [cargado, filas]
    df,                 \* the input table: rows [id, etiqueta, direccion]
    direcciones_unicas, \* local of geocodificar_direcciones
    consultas,          \* one entry per element of direcciones_unicas
    cache,              \* local dict of geocodificar_direcciones
    progreso_actual,    \* local counter of geocodificar_direcciones
    avisos,             \* the calls made to callback, in call order
    df_geo,             \* the table returned by geocodificar_direcciones
    df_final            \* the table returned by asignar_seccion_electoral

vars == <<pc, proveedor, max_workers, gdf, df, direcciones_unicas, consultas,
          cache, progreso_actual, avisos, df_geo, df_final>>

----------------------------------------------------------------------------
(* Bounds of the model *)

MaxFilas == 2

\* row labels (the index of the DataFrame) an input table may carry
Etiquetas == {0, 1}

\* the text cells an input row may carry: missing, empty, blank, "A", " A", "B"
NaN == <<"NaN">>
Textos == {<< >>, <<" ">>, <<"A">>, <<" ", "A">>, <<"B">>}
Celdas == Textos \cup {NaN}

\* the provider names a caller may pass; "Google" is not in the registry
NombresProveedor == {"ArcGIS", "Photon", "Nominatim", "Google"}

\* the coordinates the geocoding service may answer
Puntos == {<<"20.0", "-100.0">>, <<"21.0", "-100.0">>}

\* the polygons a GeoJSON file may hold: each contains the listed points
Poligono1 == [SECCION |-> "Z1", dentro |-> Puntos]
Poligono2 == [SECCION |-> "Z2", dentro |-> {<<"21.0", "-100.0">>}]
ArchivosGeojson ==
    {<< >>, <<Poligono1>>, <<Poligono2>>,
     <<Poligono1, Poligono2>>, <<Poligono2, Poligono1>>}

\* what path_geojson may lead to: a readable file, or nothing that can be read
FuentesGeojson ==
    {[legible |-> TRUE, filas |-> a] : a \in ArchivosGeojson}
    \cup {[legible |-> FALSE, filas |-> << >>]}

----------------------------------------------------------------------------
(* Generic helpers *)

Rango(s) == {s[i] : i \in DOMAIN s}

\* the sequences over 1..n that are permutations of 1..n
Permutaciones(n) ==
    {p \in [1..n -> 1..n] : \A i, j \in 1..n : p[i] = p[j] => i = j}

RECURSIVE Aplanar(_)
Aplanar(ss) == IF ss = << >> THEN << >> ELSE Head(ss) \o Aplanar(Tail(ss))

\* the tables of n rows: row i carries its original position as passthrough data
Tablas(n) ==
    {[i \in 1..n |-> [id |-> i, etiqueta |-> e[i], direccion |-> d[i]]] :
        e \in [1..n -> Etiquetas], d \in [1..n -> Celdas]}

----------------------------------------------------------------------------
(* PROVEEDORES and the construction of a GeoReferenciador *)

\* a registry that also knows the name "Google"
PROVEEDORES_ConGoogle ==
    [ArcGIS    |-> [workers |-> 8],
     Photon    |-> [workers |-> 6],
     Nominatim |-> [workers |-> 1],
     Google    |-> [workers |-> 8]]

PROVEEDORES ==
    [ArcGIS    |-> [workers |-> 8],
     Photon    |-> [workers |-> 6],
     Nominatim |-> [workers |-> 1]]

\* max_retries given to RateLimiter
MAX_RETRIES == 2

SIN == <<"None", "None">>

Init ==
    /\ pc = "inicio"
    /\ proveedor = "None"
    /\ max_workers = 0
    /\ gdf = [cargado |-> FALSE, filas |-> << >>]
    /\ df \in UNION {Tablas(n) : n \in 0..MaxFilas}
    /\ direcciones_unicas = << >>
    /\ consultas = << >>
    /\ cache = << >>
    /\ progreso_actual = 0
    /\ avisos = << >>
    /\ df_geo = << >>
    /\ df_final = << >>

\* GeoReferenciador(proveedor): ValueError for a name outside PROVEEDORES
Construir(p) ==
    /\ pc = "inicio"
    /\ proveedor' = p
    /\ IF p \notin DOMAIN PROVEEDORES
       THEN /\ pc' = "error_config"
            /\ UNCHANGED max_workers
       ELSE /\ pc' = "listo"
            /\ max_workers' = PROVEEDORES[p].workers
    /\ UNCHANGED <<gdf, df, direcciones_unicas, consultas, cache,
                   progreso_actual, avisos, df_geo, df_final>>

----------------------------------------------------------------------------
(* Text helpers: str.strip(), dropna(), unique() *)

RECURSIVE LStrip(_)
LStrip(s) == IF s # << >> /\ Head(s) = " " THEN LStrip(Tail(s)) ELSE s

RECURSIVE RStrip(_)
RStrip(s) ==
    IF s # << >> /\ s[Len(s)] = " " THEN RStrip(SubSeq(s, 1, Len(s) - 1)) ELSE s

Strip(s) == RStrip(LStrip(s))

DropNa(col) == SelectSeq(col, LAMBDA d : d # NaN)

\* the filter left out
NoVacias_SinFiltro(col) == col

\* .loc[lambda s: s.str.strip() != ""]
NoVacias(col) == SelectSeq(col, LAMBDA d : Strip(d) # << >>)

\* every value kept, repeated ones too
Unique_ConRepetidos(col) == col

\* Series.unique(): the distinct values in order of first appearance
RECURSIVE Unique(_)
Unique(col) ==
    IF col = << >> THEN << >>
    ELSE LET resto == Unique(SubSeq(col, 1, Len(col) - 1))
             ult   == col[Len(col)]
         IN IF ult \in Rango(resto) THEN resto ELSE Append(resto, ult)

Columna(t) == [i \in DOMAIN t |-> t[i].direccion]

DireccionesUnicas(t) == Unique(NoVacias(DropNa(Columna(t))))

----------------------------------------------------------------------------
(* _geocodificar_una and the RateLimiter around the geocoder *)

\* what one call of the geocoding client may do: answer a location, answer
\* nothing, fail with a service error (timeout, unavailable, quota: the errors
\* RateLimiter retries), or raise anything else
RespuestasCliente ==
    {[tipo |-> "ok", coord |-> p] : p \in Puntos}
    \cup {[tipo |-> t, coord |-> SIN] : t \in {"nada", "error", "excepcion"}}

\* the value of a lookup that ended by raising
EXC == <<"Exception", "Exception">>

ConsultaNueva ==
    [estado |-> "en_cola", intento |-> 0, respuesta |-> "ninguna",
     resultado |-> SIN]

\* `if not direccion or direccion.strip() == ""`
DireccionVacia(d) == d = NaN \/ d = << >> \/ Strip(d) = << >>

\* one retry more than max_retries
QuedanReintentos_UnoMas(intento) == intento <= MAX_RETRIES

\* RateLimiter: a service error is retried while retries remain
QuedanReintentos(intento) == intento < MAX_RETRIES

\* the exception of the client let through
TrasExcepcion_SinCapturar == EXC

\* `except Exception: pass` followed by `return (None, None)`
TrasExcepcion == SIN

\* one step of _geocodificar_una(d) on the lookup c, the client answering r
GeocodificarUnaPaso(d, c, r) ==
    IF DireccionVacia(d)
    THEN [c EXCEPT !.estado = "hecho", !.resultado = SIN]
    ELSE CASE r.tipo = "ok" ->
                [c EXCEPT !.estado = "hecho", !.respuesta = "ok",
                          !.resultado = r.coord]
           [] r.tipo = "nada" ->
                [c EXCEPT !.estado = "hecho", !.respuesta = "nada",
                          !.resultado = SIN]
           [] r.tipo = "error" ->
                IF QuedanReintentos(c.intento)
                THEN [c EXCEPT !.intento = @ + 1, !.respuesta = "error"]
                ELSE [c EXCEPT !.estado = "hecho", !.respuesta = "error",
                               !.resultado = SIN]
           [] r.tipo = "excepcion" ->
                [c EXCEPT !.estado = "hecho", !.respuesta = "excepcion",
                          !.resultado = TrasExcepcion]

----------------------------------------------------------------------------
(* geocodificar_direcciones *)

EnEstado(e) == {i \in DOMAIN consultas : consultas[i].estado = e}

CacheGet(c, d) == IF d \in DOMAIN c THEN c[d] ELSE SIN

\* a write that drops the entries already there
CachePut_SoloUno(c, d, v) == [k \in {d} |-> v]

\* a write that is lost
CachePut_SinEscribir(c, d, v) == c

\* `cache[direccion] = ...`
CachePut(c, d, v) ==
    [k \in DOMAIN c \cup {d} |-> IF k = d THEN v ELSE c[k]]

\* lines 122-142: the unique addresses, the empty cache and, with more than
\* one worker, one future submitted per unique address
GeocodificarInicio ==
    /\ pc \in {"listo", "ejecutando"}
    /\ direcciones_unicas' = DireccionesUnicas(df)
    /\ consultas' = [i \in DOMAIN direcciones_unicas' |-> ConsultaNueva]
    /\ cache' = << >>
    /\ progreso_actual' = 0
    /\ pc' = IF max_workers > 1 THEN "paralelo" ELSE "secuencial"
    /\ UNCHANGED <<proveedor, max_workers, gdf, df, avisos, df_geo, df_final>>

\* a pool that starts a thread for every work item
HayWorkerLibre_SinLimite == TRUE

\* ThreadPoolExecutor(max_workers=self._max_workers): a work item starts only
\* while fewer than max_workers threads are running one
HayWorkerLibre == Cardinality(EnEstado("en_curso")) < max_workers

\* a pool thread takes the oldest queued work item
WorkerInicia(i) ==
    /\ pc = "paralelo"
    /\ consultas[i].estado = "en_cola"
    /\ \A j \in 1..(i - 1) : consultas[j].estado # "en_cola"
    /\ HayWorkerLibre
    /\ consultas' = [consultas EXCEPT ![i].estado = "en_curso"]
    /\ UNCHANGED <<pc, proveedor, max_workers, gdf, df, direcciones_unicas,
                   cache, progreso_actual, avisos, df_geo, df_final>>

\* a pool thread runs _geocodificar_una up to the next answer of the client
WorkerLlama(i) ==
    /\ pc = "paralelo"
    /\ consultas[i].estado = "en_curso"
    /\ \E r \in RespuestasCliente :
         consultas' = [consultas EXCEPT
                         ![i] = GeocodificarUnaPaso(direcciones_unicas[i], @, r)]
    /\ UNCHANGED <<pc, proveedor, max_workers, gdf, df, direcciones_unicas,
                   cache, progreso_actual, avisos, df_geo, df_final>>

\* a loop that takes the next future before it is done with the last
Ocupado_Nunca == FALSE

\* the calling thread is between the cache write and the callback of an entry
Ocupado == EnEstado("en_cache") # {}

\* lines 143-148: as_completed hands over a finished future
RecogerFuturo(i) ==
    /\ pc = "paralelo"
    /\ ~Ocupado
    /\ consultas[i].estado = "hecho"
    /\ cache' = CachePut(cache, direcciones_unicas[i],
                         IF consultas[i].resultado = EXC
                         THEN SIN ELSE consultas[i].resultado)
    /\ consultas' = [consultas EXCEPT ![i].estado = "en_cache"]
    /\ UNCHANGED <<pc, proveedor, max_workers, gdf, df, direcciones_unicas,
                   progreso_actual, avisos, df_geo, df_final>>

\* the counter left as it is
Incrementa_Nada(n) == n

\* `progreso_actual += 1`
Incrementa(n) == n + 1

\* lines 149-151
AvisarParalelo(i) ==
    /\ pc = "paralelo"
    /\ consultas[i].estado = "en_cache"
    /\ progreso_actual' = Incrementa(progreso_actual)
    /\ avisos' = Append(avisos, [completado |-> progreso_actual',
                                 total |-> Len(direcciones_unicas),
                                 direccion |-> direcciones_unicas[i]])
    /\ consultas' = [consultas EXCEPT ![i].estado = "avisado"]
    /\ UNCHANGED <<pc, proveedor, max_workers, gdf, df, direcciones_unicas,
                   cache, df_geo, df_final>>

\* the element the sequential loop is at
Actual(i) == \A j \in 1..(i - 1) : consultas[j].estado = "avisado"

\* line 155: the loop calls _geocodificar_una
SecInicia(i) ==
    /\ pc = "secuencial"
    /\ Actual(i)
    /\ consultas[i].estado = "en_cola"
    /\ consultas' = [consultas EXCEPT ![i].estado = "en_curso"]
    /\ UNCHANGED <<pc, proveedor, max_workers, gdf, df, direcciones_unicas,
                   cache, progreso_actual, avisos, df_geo, df_final>>

SecLlama(i) ==
    /\ pc = "secuencial"
    /\ consultas[i].estado = "en_curso"
    /\ \E r \in RespuestasCliente :
         consultas' = [consultas EXCEPT
                         ![i] = GeocodificarUnaPaso(direcciones_unicas[i], @, r)]
    /\ UNCHANGED <<pc, proveedor, max_workers, gdf, df, direcciones_unicas,
                   cache, progreso_actual, avisos, df_geo, df_final>>

\* line 155: the assignment; an exception of the call leaves the method
SecGuarda(i) ==
    /\ pc = "secuencial"
    /\ consultas[i].estado = "hecho"
    /\ IF consultas[i].resultado = EXC
       THEN /\ pc' = "abortado"
            /\ UNCHANGED <<cache, consultas>>
       ELSE /\ cache' = CachePut(cache, direcciones_unicas[i],
                                 consultas[i].resultado)
            /\ consultas' = [consultas EXCEPT ![i].estado = "en_cache"]
            /\ UNCHANGED pc
    /\ UNCHANGED <<proveedor, max_workers, gdf, df, direcciones_unicas,
                   progreso_actual, avisos, df_geo, df_final>>

\* lines 156-157: callback(i, total, direccion)
SecAvisa(i) ==
    /\ pc = "secuencial"
    /\ consultas[i].estado = "en_cache"
    /\ avisos' = Append(avisos, [completado |-> i,
                                 total |-> Len(direcciones_unicas),
                                 direccion |-> direcciones_unicas[i]])
    /\ consultas' = [consultas EXCEPT ![i].estado = "avisado"]
    /\ UNCHANGED <<pc, proveedor, max_workers, gdf, df, direcciones_unicas,
                   cache, progreso_actual, df_geo, df_final>>

\* lines 159-167: the cache mapped onto every row
Mapear(t, c) ==
    [i \in DOMAIN t |->
        [id |-> t[i].id, etiqueta |-> t[i].etiqueta,
         direccion |-> t[i].direccion,
         LATITUD |-> CacheGet(c, t[i].direccion)[1],
         LONGITUD |-> CacheGet(c, t[i].direccion)[2]]]

GeocodificarFin ==
    /\ pc \in {"paralelo", "secuencial"}
    /\ \A i \in DOMAIN consultas : consultas[i].estado = "avisado"
    /\ df_geo' = Mapear(df, cache)
    /\ pc' = "geocodificado"
    /\ UNCHANGED <<proveedor, max_workers, gdf, df, direcciones_unicas,
                   consultas, cache, progreso_actual, avisos, df_final>>

----------------------------------------------------------------------------
(* cargar_geojson, asignar_seccion_electoral, ejecutar *)

\* cargar_geojson on a readable source: SECCION and geometry of every feature
CargarGeojson(f) == [cargado |-> TRUE, filas |-> f.filas]

\* ejecutar, line 218: the polygons are loaded before anything else
EjecutarCargar ==
    /\ pc = "listo"
    /\ \E f \in FuentesGeojson :
         IF f.legible
         THEN /\ gdf' = CargarGeojson(f)
              /\ pc' = "ejecutando"
         ELSE /\ pc' = "error_geojson"
              /\ UNCHANGED gdf
    /\ UNCHANGED <<proveedor, max_workers, df, direcciones_unicas, consultas,
                   cache, progreso_actual, avisos, df_geo, df_final>>

\* line 184
MaskValido(r) == r.LATITUD # "None" /\ r.LONGITUD # "None"

\* predicate="within": the point of the row lies in the polygon
Within(r, pol) == <<r.LATITUD, r.LONGITUD>> \in pol.dentro

\* gpd.sjoin(how="left"): for every left row, in order, one result row per
\* polygon that contains it, or one row without SECCION when none does.  The
\* order of the matches of one row is the library's: ord[i] is the order in
\* which the polygons come out for left row i.
SJoin(izq, zonas, ord) ==
    Aplanar([i \in DOMAIN izq |->
        LET hallados == SelectSeq(ord[i], LAMBDA j : Within(izq[i], zonas[j]))
        IN IF hallados = << >>
           THEN <<[etiqueta |-> izq[i].etiqueta, SECCION |-> "None"]>>
           ELSE [k \in DOMAIN hallados |->
                    [etiqueta |-> izq[i].etiqueta,
                     SECCION |-> zonas[hallados[k]].SECCION]]])

\* resultado[~resultado.index.duplicated(keep='first')]
RECURSIVE SinDuplicados(_)
SinDuplicados(res) ==
    IF res = << >> THEN << >>
    ELSE LET resto == SinDuplicados(SubSeq(res, 1, Len(res) - 1))
             ult   == res[Len(res)]
         IN IF \E k \in DOMAIN resto : resto[k].etiqueta = ult.etiqueta
            THEN resto ELSE Append(resto, ult)

\* the value a column assignment aligns onto label e
PorEtiqueta(res, e) ==
    LET k == CHOOSE k \in DOMAIN res : res[k].etiqueta = e IN res[k].SECCION

ConSeccion(r, s) ==
    [id |-> r.id, etiqueta |-> r.etiqueta, direccion |-> r.direccion,
     LATITUD |-> r.LATITUD, LONGITUD |-> r.LONGITUD, SECCION_ELECTORAL |-> s]

\* lines 192-205: the rows with a point joined to the polygons, then the rows
\* without one, before the final sort
Concatenado(t, zonas, ord) ==
    LET con_geom  == SelectSeq(t, MaskValido)
        sin_geom  == SelectSeq(t, LAMBDA r : ~MaskValido(r))
        resultado == SinDuplicados(SJoin(con_geom, zonas, ord))
    IN [i \in DOMAIN con_geom |->
           ConSeccion(con_geom[i], PorEtiqueta(resultado, con_geom[i].etiqueta))]
       \o [i \in DOMAIN sin_geom |-> ConSeccion(sin_geom[i], "None")]

\* the index is already in increasing order (repeated labels allowed)
Monotona(t) ==
    \A i \in 1..(Len(t) - 1) : t[i].etiqueta <= t[i + 1].etiqueta

\* sort_index(): a table whose index is already monotonic is returned as it
\* is; otherwise perm is an order of the rows by label that the default
\* (unstable) sort may produce
OrdenaPorIndice(t, perm) ==
    IF Monotona(t)
    THEN \A i \in DOMAIN t : perm[i] = i
    ELSE \A i, j \in DOMAIN t :
            i < j => t[perm[i]].etiqueta <= t[perm[j]].etiqueta

\* lines 179-180: the source is read only when no polygon set is loaded yet
FuentesPorLeer ==
    IF gdf.cargado THEN {[legible |-> TRUE, filas |-> gdf.filas]}
    ELSE FuentesGeojson

AsignarSeccionElectoral ==
    /\ pc = "geocodificado"
    /\ \E f \in FuentesPorLeer :
         IF ~gdf.cargado /\ ~f.legible
         THEN /\ pc' = "error_geojson"
              /\ UNCHANGED <<gdf, df_final>>
         ELSE LET zonas == IF gdf.cargado THEN gdf ELSE CargarGeojson(f)
                  n_con == Len(SelectSeq(df_geo, MaskValido))
              IN /\ gdf' = zonas
                 /\ \E ord \in [1..n_con -> Permutaciones(Len(zonas.filas))] :
                    \E perm \in Permutaciones(Len(df_geo)) :
                      LET junto == Concatenado(df_geo, zonas.filas, ord)
                      IN /\ OrdenaPorIndice(junto, perm)
                         /\ df_final' = [i \in DOMAIN junto |-> junto[perm[i]]]
                 /\ pc' = "fin"
    /\ UNCHANGED <<proveedor, max_workers, df, direcciones_unicas, consultas,
                   cache, progreso_actual, avisos, df_geo>>

Next ==
    \/ \E p \in NombresProveedor : Construir(p)
    \/ GeocodificarInicio
    \/ \E i \in DOMAIN consultas : WorkerInicia(i)
    \/ \E i \in DOMAIN consultas : WorkerLlama(i)
    \/ \E i \in DOMAIN consultas : RecogerFuturo(i)
    \/ \E i \in DOMAIN consultas : AvisarParalelo(i)
    \/ \E i \in DOMAIN consultas : SecInicia(i)
    \/ \E i \in DOMAIN consultas : SecLlama(i)
    \/ \E i \in DOMAIN consultas : SecGuarda(i)
    \/ \E i \in DOMAIN consultas : SecAvisa(i)
    \/ GeocodificarFin
    \/ EjecutarCargar
    \/ AsignarSeccionElectoral

Spec == Init /\ [][Next]_vars

\* the steps taken inside geocodificar_direcciones once it has started: the
\* pool threads and the calling thread are scheduled, and every client call
\* returns, answers nothing or fails
PasoDeGeocodificacion ==
    \/ \E i \in DOMAIN consultas :
          \/ WorkerInicia(i) \/ WorkerLlama(i) \/ RecogerFuturo(i)
          \/ AvisarParalelo(i)
          \/ SecInicia(i) \/ SecLlama(i) \/ SecGuarda(i) \/ SecAvisa(i)
    \/ GeocodificarFin

SpecJusto == Spec /\ WF_vars(PasoDeGeocodificacion)

----------------------------------------------------------------------------
(* geocodificar_direcciones on a table with more distinct addresses than the *)
(* pool has threads                                                         *)

\* how many distinct addresses the table has beyond the threads of Photon
ExcesoPool == 1

\* the address texts "A", "AA", "AAA", ...: one per row, all distinct
TablaPool ==
    [i \in 1..(PROVEEDORES.Photon.workers + ExcesoPool) |->
        [id |-> i, etiqueta |-> i - 1, direccion |-> [j \in 1..i |-> "A"]]]

InitPool ==
    /\ pc = "inicio"
    /\ proveedor = "None"
    /\ max_workers = 0
    /\ gdf = [cargado |-> FALSE, filas |-> << >>]
    /\ df = TablaPool
    /\ direcciones_unicas = << >>
    /\ consultas = << >>
    /\ cache = << >>
    /\ progreso_actual = 0
    /\ avisos = << >>
    /\ df_geo = << >>
    /\ df_final = << >>

\* the geocoding of TablaPool with Photon (6 threads) and with Nominatim (the
\* sequential loop), the client finding nothing for any address
NextPool ==
    \/ \E p \in {"Photon", "Nominatim"} : Construir(p)
    \/ GeocodificarInicio
    \/ \E i \in DOMAIN consultas : WorkerInicia(i)
    \/ \E i \in DOMAIN consultas :
          WorkerLlama(i) /\ consultas'[i].respuesta = "nada"
    \/ \E i \in DOMAIN consultas : RecogerFuturo(i)
    \/ \E i \in DOMAIN consultas : AvisarParalelo(i)
    \/ \E i \in DOMAIN consultas : SecInicia(i)
    \/ \E i \in DOMAIN consultas :
          SecLlama(i) /\ consultas'[i].respuesta = "nada"
    \/ \E i \in DOMAIN consultas : SecGuarda(i)
    \/ \E i \in DOMAIN consultas : SecAvisa(i)
    \/ GeocodificarFin

SpecPool == InitPool /\ [][NextPool]_vars

----------------------------------------------------------------------------
(* Vocabulary of the properties *)

\* a cell that is missing, empty or made of blanks only
EnBlanco(d) == d = NaN \/ \A k \in DOMAIN d : d[k] = " "

\* the distinct address texts of the input that are not blank
DireccionesDeEntrada ==
    {df[i].direccion : i \in DOMAIN df} \ {d \in Celdas : EnBlanco(d)}

\* the lookups dispatched for the address text d
ConsultasDe(d) == {i \in DOMAIN consultas : direcciones_unicas[i] = d}

GeocodificacionEnCurso == pc \in {"paralelo", "secuencial"}
GeocodificacionHecha == pc \in {"geocodificado", "fin"}
Terminada(c) == c.estado \in {"hecho", "en_cache", "avisado"}
Registrada(c) == c.estado \in {"en_cache", "avisado"}

\* the positions of the polygons of the loaded set that contain the row's point
Contienen(r) == {j \in DOMAIN gdf.filas : Within(r, gdf.filas[j])}

Minimo(S) == CHOOSE x \in S : \A y \in S : x <= y

----------------------------------------------------------------------------
(* C1 *)

\* C1: the table returned by the pipeline has the rows of the input, each at
\* the position it had in the input, whatever labels the input carries.
C1_FilasEnSuPosicion ==
    pc = "fin" =>
        /\ Len(df_final) = Len(df)
        /\ \A i \in DOMAIN df : df_final[i].id = df[i].id

----------------------------------------------------------------------------
(* C2 *)

\* C2: within one run every distinct non-blank address text is dispatched as
\* exactly one lookup, and every row that carries it receives the outcome of
\* that lookup as its LATITUD and LONGITUD.
C2_UnaConsultaPorDireccion ==
    /\ (GeocodificacionEnCurso \/ GeocodificacionHecha) =>
          \A d \in DireccionesDeEntrada : Cardinality(ConsultasDe(d)) = 1
    /\ \A i \in DOMAIN df_geo :
          df_geo[i].direccion \in DireccionesDeEntrada =>
              \A k \in ConsultasDe(df_geo[i].direccion) :
                  <<df_geo[i].LATITUD, df_geo[i].LONGITUD>>
                      = consultas[k].resultado

C2_Testigo ==
    /\ pc = "geocodificado"
    /\ \E i, j \in DOMAIN df_geo :
          /\ i # j
          /\ df_geo[i].direccion = df_geo[j].direccion
          /\ df_geo[i].LATITUD # "None"
          /\ df_geo[j].LATITUD = df_geo[i].LATITUD

----------------------------------------------------------------------------
(* C3 *)

\* C3: a row whose address is missing, empty or blank is never dispatched,
\* never reaches the client, the cache or the callback, has LATITUD and
\* LONGITUD None and gets SECCION_ELECTORAL None.
C3_DireccionEnBlanco ==
    /\ \A i \in DOMAIN direcciones_unicas : ~EnBlanco(direcciones_unicas[i])
    /\ \A d \in DOMAIN cache : ~EnBlanco(d)
    /\ \A k \in DOMAIN avisos : ~EnBlanco(avisos[k].direccion)
    /\ \A i \in DOMAIN df_geo :
          EnBlanco(df_geo[i].direccion) =>
              df_geo[i].LATITUD = "None" /\ df_geo[i].LONGITUD = "None"
    /\ \A i \in DOMAIN df_final :
          EnBlanco(df_final[i].direccion) =>
              /\ df_final[i].LATITUD = "None"
              /\ df_final[i].LONGITUD = "None"
              /\ df_final[i].SECCION_ELECTORAL = "None"

C3_Testigo ==
    /\ pc = "fin"
    /\ \E i, j \in DOMAIN df_final :
          /\ EnBlanco(df_final[i].direccion)
          /\ df_final[i].SECCION_ELECTORAL = "None"
          /\ df_final[j].SECCION_ELECTORAL # "None"

----------------------------------------------------------------------------
(* C4 *)

\* C4: a lookup whose every client call failed with a service error ends
\* after exactly 2 retries with the outcome (None, None); geocoding never
\* aborts, and every recorded outcome is the one of its own lookup.
C4_ReintentosAgotados ==
    /\ pc # "abortado"
    /\ \A i \in DOMAIN consultas :
          /\ consultas[i].resultado # EXC
          /\ (Terminada(consultas[i]) /\ consultas[i].respuesta = "error") =>
                consultas[i].intento = 2 /\ consultas[i].resultado = SIN
          /\ (Terminada(consultas[i]) /\ consultas[i].respuesta = "ok") =>
                consultas[i].resultado \in Puntos
          /\ Registrada(consultas[i]) =>
                /\ direcciones_unicas[i] \in DOMAIN cache
                /\ cache[direcciones_unicas[i]] = consultas[i].resultado

C4_Testigo ==
    /\ pc = "geocodificado"
    /\ \E i, j \in DOMAIN consultas :
          /\ consultas[i].respuesta = "error"
          /\ consultas[i].intento = 2
          /\ cache[direcciones_unicas[i]] = SIN
          /\ consultas[j].respuesta = "ok"
          /\ cache[direcciones_unicas[j]] \in Puntos

----------------------------------------------------------------------------
(* C5 *)

\* C5: with T distinct non-blank address texts the k-th call of the callback
\* carries completed = k and total = T, no address is reported twice, and a
\* finished geocoding has made exactly T calls (none when T = 0).
C5_ProgresoSinHuecos ==
    LET T == Cardinality(DireccionesDeEntrada)
    IN /\ Len(avisos) <= T
       /\ \A k \in DOMAIN avisos :
             /\ avisos[k].completado = k
             /\ avisos[k].total = T
             /\ avisos[k].direccion \in DireccionesDeEntrada
       /\ \A k, l \in DOMAIN avisos :
             avisos[k].direccion = avisos[l].direccion => k = l
       /\ GeocodificacionHecha => Len(avisos) = T

\* two addresses finished in the order opposite to their submission
C5_Testigo ==
    /\ pc = "geocodificado"
    /\ max_workers > 1
    /\ Len(avisos) = 2
    /\ avisos[1].direccion = direcciones_unicas[2]
    /\ avisos[2].completado = 2

----------------------------------------------------------------------------
(* C6 *)

\* C6: a row whose point lies within more than one polygon gets the section
\* of the first of them in the order of the loaded polygon set, whatever the
\* order in which the join returns its matches.
C6_PrimerPoligono ==
    pc = "fin" =>
        \A i \in DOMAIN df_final :
            (MaskValido(df_final[i]) /\ Cardinality(Contienen(df_final[i])) > 1)
                => df_final[i].SECCION_ELECTORAL
                      = gdf.filas[Minimo(Contienen(df_final[i]))].SECCION

----------------------------------------------------------------------------
(* C7 *)

\* C7: constructing with a name other than ArcGIS, Photon or Nominatim fails:
\* no object is obtained, nothing is loaded, no row is processed, no lookup
\* is dispatched and the callback is never called.
C7_ProveedorDesconocido ==
    (pc # "inicio" /\ proveedor \notin {"ArcGIS", "Photon", "Nominatim"}) =>
        /\ pc = "error_config"
        /\ max_workers = 0
        /\ ~gdf.cargado
        /\ consultas = << >>
        /\ DOMAIN cache = {}
        /\ avisos = << >>
        /\ df_geo = << >>
        /\ df_final = << >>

C7_Testigo ==
    /\ pc = "error_config"
    /\ proveedor = "Google"
    /\ DireccionesDeEntrada # {}

----------------------------------------------------------------------------
(* C8 *)

\* C8: a geocoding that has started always reaches its end, with an outcome
\* in the cache for every distinct non-blank address text of the input.
C8_GeocodificacionTermina ==
    GeocodificacionEnCurso
        ~> (pc = "geocodificado" /\ DOMAIN cache = DireccionesDeEntrada)

\* a run that ended although one lookup raised and another found nothing
C8_Testigo ==
    /\ pc = "geocodificado"
    /\ DOMAIN cache = DireccionesDeEntrada
    /\ \E i, j \in DOMAIN consultas :
          /\ consultas[i].respuesta = "excepcion"
          /\ consultas[j].respuesta = "nada"

----------------------------------------------------------------------------
(* C9 *)

\* C9: when loading the polygon set fails, no lookup has been issued.
C9_CargaAntesDeConsultar ==
    pc = "error_geojson" => consultas = << >> /\ avisos = << >>

----------------------------------------------------------------------------
(* C10 *)

\* C10: address texts that are equal once stripped share one lookup and one
\* cache entry, and their rows receive the same coordinate.
C10_ClaveRecortada ==
    /\ \A i, j \in DOMAIN direcciones_unicas :
          Strip(direcciones_unicas[i]) = Strip(direcciones_unicas[j]) => i = j
    /\ \A d, e \in DOMAIN cache : Strip(d) = Strip(e) => d = e
    /\ \A i, j \in DOMAIN df_geo :
          (/\ ~EnBlanco(df_geo[i].direccion)
           /\ ~EnBlanco(df_geo[j].direccion)
           /\ Strip(df_geo[i].direccion) = Strip(df_geo[j].direccion))
              => /\ df_geo[i].LATITUD = df_geo[j].LATITUD
                 /\ df_geo[i].LONGITUD = df_geo[j].LONGITUD

----------------------------------------------------------------------------
(* C11 *)

\* C11: the number of lookups in flight never exceeds the workers value of
\* the selected provider profile, however many addresses are pending.
C11_EnVueloAcotado ==
    proveedor \in DOMAIN PROVEEDORES =>
        Cardinality(EnEstado("en_curso")) <= PROVEEDORES[proveedor].workers

\* every thread of the pool is busy while an address still waits in the queue
C11_Testigo ==
    /\ proveedor = "Photon"
    /\ Cardinality(EnEstado("en_curso")) = PROVEEDORES.Photon.workers
    /\ EnEstado("en_cola") # {}

----------------------------------------------------------------------------
(* C12 *)

\* C12: every key of the cache is a distinct non-blank address text of the
\* input, a key is written only while it is not yet in the cache, and an
\* entry, once written, is neither changed nor removed.
C12_CacheEscrituraUnica ==
    /\ [](\A d \in DOMAIN cache : d \in DireccionesDeEntrada)
    /\ [][\A d \in DOMAIN cache :
             d \in DOMAIN cache' /\ cache'[d] = cache[d]]_vars
    /\ [][\A i \in DOMAIN consultas \cap DOMAIN consultas' :
             (consultas[i].estado # "en_cache"
                 /\ consultas'[i].estado = "en_cache")
             => /\ direcciones_unicas[i] \notin DOMAIN cache
                /\ DOMAIN cache' = DOMAIN cache \cup {direcciones_unicas[i]}]_vars

\* two entries with different outcomes, written while the pool is at work
C12_Testigo ==
    /\ pc = "paralelo"
    /\ \E d, e \in DOMAIN cache : cache[d] \in Puntos /\ cache[e] = SIN

----------------------------------------------------------------------------
(* C13 *)

\* C13: a row gets no section exactly when it has no coordinate or its point
\* lies in no polygon of the loaded set, and otherwise gets the section of a
\* polygon that contains its point.
C13_SeccionSiContiene ==
    pc = "fin" =>
        \A i \in DOMAIN df_final :
            /\ (df_final[i].SECCION_ELECTORAL = "None")
                  <=> (~MaskValido(df_final[i]) \/ Contienen(df_final[i]) = {})
            /\ df_final[i].SECCION_ELECTORAL # "None" =>
                  \E j \in Contienen(df_final[i]) :
                      gdf.filas[j].SECCION = df_final[i].SECCION_ELECTORAL

----------------------------------------------------------------------------
(* C14 *)

\* C14: when the callback is called for an address, the cache already holds
\* the entry of that address and at least `completed` entries.
C14_AvisoTrasCache ==
    [][Len(avisos') > Len(avisos) =>
          LET a == avisos'[Len(avisos')]
          IN /\ a.direccion \in DOMAIN cache
             /\ Cardinality(DOMAIN cache) >= a.completado]_vars

\* the second outcome is in the cache and its callback has not been made yet
C14_Testigo ==
    /\ Len(avisos) = 1
    /\ Cardinality(DOMAIN cache) = 2
    /\ avisos[1].direccion \in DOMAIN cache

----------------------------------------------------------------------------
(* C15 *)

\* a step of a pool thread: a lookup that is queued or running changes
EsPasoDeWorker ==
    \E i \in DOMAIN consultas \cap DOMAIN consultas' :
        /\ consultas[i].estado \in {"en_cola", "en_curso"}
        /\ consultas'[i] # consultas[i]

\* a step of the calling thread on exactly one finished lookup
EsPasoDelHiloPrincipal ==
    \E i \in DOMAIN consultas :
        /\ \/ consultas[i].estado = "hecho" /\ consultas'[i].estado = "en_cache"
           \/ consultas[i].estado = "en_cache" /\ consultas'[i].estado = "avisado"
        /\ \A j \in DOMAIN consultas \ {i} : consultas'[j] = consultas[j]

\* C15: in the parallel regime a step of a pool thread changes neither the
\* cache, nor the progress counter, nor the calls made to the callback; these
\* change only in steps of the calling thread, which is never at work on two
\* finished lookups at once.
C15_SoloElHiloPrincipal ==
    /\ [](pc = "paralelo" => Cardinality(EnEstado("en_cache")) <= 1)
    /\ [][(pc = "paralelo" /\ EsPasoDeWorker) =>
             UNCHANGED <<cache, progreso_actual, avisos>>]_vars
    /\ [][(pc = "paralelo" /\ <<cache, progreso_actual, avisos>>'
                                 # <<cache, progreso_actual, avisos>>) =>
             EsPasoDelHiloPrincipal]_vars

\* the calling thread has written an outcome while a pool thread is running
C15_Testigo ==
    /\ pc = "paralelo"
    /\ EnEstado("en_cache") # {}
    /\ EnEstado("en_curso") # {}

====
